---- MODULE Spec2Model ----
(***************************************************************************)
(* Mark reconciliation of the school backend: the spreadsheet import       *)
(* (core/views.py, ExcelMarkImportView.post and _commit_marks_sync), the   *)
(* bulk upsert (core/model_views.py, MarkViewSet.bulk_upsert with          *)
(* MarkCreateSerializer), the authorization primitive                      *)
(* (core/models.py, User.can_edit_marks) and the current-year and          *)
(* current-term flag (core/model_views.py, AcademicYearViewSet and         *)
(* TermViewSet; core/serializers.py).                                      *)
(*                                                                         *)
(* Decimal values (score, max_score, coefficient, total_mark) are          *)
(* integers counted in hundredths; 1 is the smallest step, 0.01.           *)
(* A comment is the pair <<text, length>>.                                 *)
(* The pre-fetch expressions of views.py 215-236 are read as the queries   *)
(* they name: students by registration number, subjects by code, the       *)
(* assignments of the target term.                                         *)
(***************************************************************************)
EXTENDS Integers, Sequences, FiniteSets, TLC

VARIABLES
    marks,                \* the Mark table: row i has primary key i
    subject_assignments,  \* the SubjectAssignment table: id -> row
    taught_subjects,      \* User.taught_subjects: user -> set of subject codes
    now,                  \* number of requests received so far (the clock)
    req,                  \* per client: the request being served
    resp,                 \* per client: the last response sent
    last_import,          \* the most recently finished request (history)
    concurrent,           \* whether requests of different clients overlap
    auth_result,          \* the last can_edit_marks call and its result
    academic_years,       \* the AcademicYear table: id -> row
    terms                 \* the Term table: id -> row

vars == <<marks, subject_assignments, taught_subjects, now, req, resp,
          last_import, concurrent, auth_result, academic_years, terms>>

---------------------------------------------------------------------------
(* Bounds *)

MaxRows == 2        \* rows in one imported file
MaxItems == 1       \* items in one bulk_upsert array
MaxRequests == 2    \* requests received in one run
NumClients == 2     \* clients that may have a request in flight
MaxDate == 3        \* days a year or a term may start or end on

(* Program constants *)

MaxCommentLen == 500    \* views.py 295: comment[:500]
HTTP_200 == 200
HTTP_201 == 201
HTTP_400 == 400
HTTP_404 == 404
HTTP_500 == 500

NULL == "NULL"
Clients == 1..NumClients

---------------------------------------------------------------------------
(* Reference data: users, students, subjects, terms *)

Users == {"p1", "t1", "t2", "u1", "g1"}

Role == [p1 |-> "principal", t1 |-> "teacher", t2 |-> "teacher",
         u1 |-> "student", g1 |-> "parent"]

\* the users who send import and bulk_upsert requests
ActingUsers == {"p1", "t1", "u1"}

Departments == {"D1", "D2"}

Terms == {"T1", "T2"}

\* Student rows by registration_number
StudentTable == [S1 |-> [department |-> "D1"], S2 |-> [department |-> "D2"]]

\* Subject rows by code (max_score and coefficient in hundredths)
SubjectTable ==
    [MATH |-> [max_score |-> 2, coefficient |-> 3],
     PHY  |-> [max_score |-> 3, coefficient |-> 2]]

Subjects == DOMAIN SubjectTable

AssignmentIds == {"A1", "A2", "A3"}

\* SubjectAssignment rows; (subject, department, term) is unique_together
InitialAssignments ==
    [A1 |-> [subject |-> "MATH", department |-> "D1", term |-> "T1", teacher |-> NULL],
     A2 |-> [subject |-> "MATH", department |-> "D1", term |-> "T2", teacher |-> "t1"],
     A3 |-> [subject |-> "PHY",  department |-> "D1", term |-> "T1", teacher |-> NULL]]

InitialTaught == [u \in Users |-> IF u = "t1" THEN {"MATH"} ELSE {}]

---------------------------------------------------------------------------
(* Helpers on sequences and comments *)

Min(a, b) == IF a < b THEN a ELSE b

SeqsUpTo(S, n) == UNION {[1..k -> S] : k \in 1..n}

EmptyComment == <<"", 0>>

\* comment[:500]
Slice500(comment) == <<comment[1], Min(comment[2], MaxCommentLen)>>

\* indices of the rows of `store` with the given key, in primary-key order
RowsWithKey(store, student, assignment) ==
    {i \in 1..Len(store) : store[i].student = student
                           /\ store[i].subject_assignment = assignment}

MinOf(S) == CHOOSE x \in S : \A y \in S : x <= y

---------------------------------------------------------------------------
(* models.py: User.can_edit_marks *)

\* models.py 26-28: SubjectAssignment.objects.filter(subject, department,
\* teacher=self).aexists(); the term is not part of the filter
AssignmentExistsFor(self, subject, department) ==
    \E a \in DOMAIN subject_assignments :
        /\ subject_assignments[a].subject = subject
        /\ subject_assignments[a].department = department
        /\ subject_assignments[a].teacher = self

can_edit_marksNoTaughtCheck(self, subject, department) ==
    IF Role[self] = "principal" THEN TRUE
    ELSE IF Role[self] = "teacher"
         THEN AssignmentExistsFor(self, subject, department)
         ELSE FALSE

can_edit_marks(self, subject, department) ==
    IF Role[self] = "principal" THEN TRUE
    ELSE IF Role[self] = "teacher"
         THEN IF subject \in taught_subjects[self]
              THEN AssignmentExistsFor(self, subject, department)
              ELSE FALSE
         ELSE FALSE

\* views.py 276-278: `await asyncio.to_thread(request.user.can_edit_marks, ...)`.
\* can_edit_marks is a coroutine function (models.py 20, `async def`);
\* to_thread calls it in a worker thread and returns what the call returns,
\* the coroutine object, which nothing awaits.  The `not` of line 276 is
\* applied to that object, and an object is truthy whatever the coroutine
\* would have computed.
PermissionCheckPasses(user, subject, department) == TRUE

---------------------------------------------------------------------------
(* models.py: Mark *)

\* models.py 104-117: Mark has no Meta, hence no unique_together and no
\* unique index besides the primary key (compare SubjectAssignment, 101-102)
MarkUniqueTogether == {}

\* models.py 115-117 and views.py 288
TotalMark(score, assignment) ==
    score * SubjectTable[subject_assignments[assignment].subject].coefficient

NewMark(student, assignment, score, total, comment, entered_by, modified_by) ==
    [pk |-> 0, student |-> student, subject_assignment |-> assignment,
     score |-> score, total_mark |-> total, comment |-> comment,
     entered_by |-> entered_by, entered_at |-> 0,
     modified_by |-> modified_by, modified_at |-> 0]

\* a DateTimeField that is NULL (modified_at) or not yet set (entered_at of
\* an unsaved object) is 0; the clock starts at 1

\* the table row an object is stored as (the primary key is the position);
\* entered_at is auto_now_add (models.py 111): set when the row is inserted
InsertRow(store, obj, time) ==
    Append(store, [student |-> obj.student,
                   subject_assignment |-> obj.subject_assignment,
                   score |-> obj.score, total_mark |-> obj.total_mark,
                   comment |-> obj.comment, entered_by |-> obj.entered_by,
                   entered_at |-> time,
                   modified_by |-> obj.modified_by,
                   modified_at |-> obj.modified_at])

\* the object a query returns for row pk
LoadMark(store, pk) ==
    [pk |-> pk, student |-> store[pk].student,
     subject_assignment |-> store[pk].subject_assignment,
     score |-> store[pk].score, total_mark |-> store[pk].total_mark,
     comment |-> store[pk].comment, entered_by |-> store[pk].entered_by,
     entered_at |-> store[pk].entered_at,
     modified_by |-> store[pk].modified_by,
     modified_at |-> store[pk].modified_at]

---------------------------------------------------------------------------
(* views.py: ExcelMarkImportView.post, the per-row loop (243-308) *)

TermAssignmentAnyTerm(term, assignment_id, code, dept) ==
    LET found == {a \in DOMAIN subject_assignments :
                    /\ subject_assignments[a].subject = code
                    /\ subject_assignments[a].department = dept
                    /\ (assignment_id = NULL \/ a = assignment_id)}
    IN  IF found = {} THEN NULL ELSE CHOOSE a \in found : TRUE

\* views.py 225-236: the assignments of the target term, optionally narrowed
\* to one assignment id, keyed by (subject code, department)
TermAssignment(term, assignment_id, code, dept) ==
    LET found == {a \in DOMAIN subject_assignments :
                    /\ subject_assignments[a].term = term
                    /\ subject_assignments[a].subject = code
                    /\ subject_assignments[a].department = dept
                    /\ (assignment_id = NULL \/ a = assignment_id)}
    IN  IF found = {} THEN NULL ELSE CHOOSE a \in found : TRUE

ScoreInRangeStrict(score, max_score) == 0 < score /\ score < max_score

\* views.py 262
ScoreInRange(score, max_score) == 0 <= score /\ score <= max_score

RowError(pos, kind, bound) == [row |-> pos + 1, kind |-> kind, bound |-> bound]

\* views.py 244-308 for the row at position pos (1-based, so that the
\* DataFrame index is pos - 1 and the reported number idx + 2 is pos + 1):
\* the first failing check reports an error and skips the row; a row that
\* passes every check is planned as an update of the Mark found for its key
\* (afirst: the one with the lowest primary key) or as a create.
PlanRow(store, user, term, assignment_id, row, pos) ==
    LET reg_no  == row.student_number
        code    == row.subject_code
        score   == row.score
        comment == IF row.comment[2] > 0 THEN row.comment ELSE EmptyComment
    IN
    IF reg_no \notin DOMAIN StudentTable
    THEN [kind |-> "error", error |-> RowError(pos, "StudentNotFound", -1)]
    ELSE IF code \notin DOMAIN SubjectTable
    THEN [kind |-> "error", error |-> RowError(pos, "SubjectNotFound", -1)]
    ELSE IF ~ScoreInRange(score, SubjectTable[code].max_score)
    THEN [kind |-> "error",
          error |-> RowError(pos, "OutOfRange", SubjectTable[code].max_score)]
    ELSE
    LET dept_id    == StudentTable[reg_no].department
        assignment == TermAssignment(term, assignment_id, code, dept_id)
    IN
    IF assignment = NULL
    THEN [kind |-> "error", error |-> RowError(pos, "NoAssignment", -1)]
    ELSE IF ~PermissionCheckPasses(user, code, dept_id)
    THEN [kind |-> "error", error |-> RowError(pos, "Forbidden", -1)]
    ELSE
    LET existing   == RowsWithKey(store, reg_no, assignment)
        total_mark == TotalMark(score, assignment)
    IN
    IF existing # {}
    THEN [kind |-> "update",
          obj |-> [LoadMark(store, MinOf(existing)) EXCEPT
                     !.student = reg_no,
                     !.subject_assignment = assignment,
                     !.score = score,
                     !.total_mark = total_mark,
                     !.comment = Slice500(comment),
                     !.entered_by = user,
                     !.modified_by = user,
                     !.modified_at = 0]]
    ELSE [kind |-> "create",
          obj |-> NewMark(reg_no, assignment, score, total_mark,
                          Slice500(comment), user, NULL)]

---------------------------------------------------------------------------
(* views.py: _commit_marks_sync (105-123) *)

\* INSERT ... ON CONFLICT (student_id, subject_assignment_id) DO UPDATE SET
\* the update_fields, for one object: the row with the key takes the
\* object's values of the update_fields, otherwise the object is inserted
UpsertOne(store, obj, time) ==
    LET hit == RowsWithKey(store, obj.student, obj.subject_assignment)
    IN  IF hit = {} THEN InsertRow(store, obj, time)
        ELSE [store EXCEPT ![MinOf(hit)] =
                 [@ EXCEPT !.score = obj.score,
                           !.total_mark = obj.total_mark,
                           !.comment = obj.comment,
                           !.entered_by = obj.entered_by,
                           !.modified_by = obj.modified_by]]

RECURSIVE UpsertAll(_, _, _)
UpsertAll(store, objs, time) ==
    IF objs = <<>> THEN store
    ELSE UpsertAll(UpsertOne(store, Head(objs), time), Tail(objs), time)

\* views.py 113-118: bulk_create(update_conflicts=True, unique_fields=
\* ['student', 'subject_assignment']).  The conflict target must name a
\* unique index of the table; Mark declares none on these two columns
\* (MarkUniqueTogether), so the database rejects the statement.
BulkCreate(store, objs, time) ==
    IF <<"student", "subject_assignment">> \in MarkUniqueTogether
    THEN [ok |-> TRUE, store |-> UpsertAll(store, objs, time)]
    ELSE [ok |-> FALSE, store |-> store]

BulkUpdateWholeRow(store, objs) ==
    [i \in 1..Len(store) |->
        LET hits == {j \in 1..Len(objs) : objs[j].pk = i}
        IN  IF hits = {} THEN store[i]
            ELSE LET o == objs[MinOf(hits)]
                 IN  [store[i] EXCEPT !.score = o.score,
                                      !.total_mark = o.total_mark,
                                      !.comment = o.comment,
                                      !.entered_by = o.entered_by,
                                      !.entered_at = o.modified_at,
                                      !.modified_by = o.modified_by,
                                      !.modified_at = o.modified_at]]

\* views.py 120-123: bulk_update writes, in one UPDATE, each listed column
\* as CASE WHEN pk = <obj.pk> THEN <obj's value> ... END over the objects in
\* list order; for a primary key that is listed twice the first WHEN applies
BulkUpdate(store, objs) ==
    [i \in 1..Len(store) |->
        LET hits == {j \in 1..Len(objs) : objs[j].pk = i}
        IN  IF hits = {} THEN store[i]
            ELSE LET o == objs[MinOf(hits)]
                 IN  [store[i] EXCEPT !.score = o.score,
                                      !.total_mark = o.total_mark,
                                      !.comment = o.comment,
                                      !.entered_by = o.entered_by,
                                      !.modified_by = o.modified_by,
                                      !.modified_at = o.modified_at]]

\* where the storage may raise during the commit
FailPoints == {"none", "bulk_create", "bulk_update", "commit"}

\* the statements of the atomic block, up to the first one that raises
RunStatements(store, marks_to_create, marks_to_update, fail, time) ==
    LET c == IF marks_to_create = <<>> THEN [ok |-> TRUE, store |-> store]
             ELSE IF fail = "bulk_create" THEN [ok |-> FALSE, store |-> store]
             ELSE BulkCreate(store, marks_to_create, time)
    IN  IF ~c.ok THEN c
        ELSE IF marks_to_update = <<>> THEN c
        ELSE IF fail = "bulk_update" THEN [ok |-> FALSE, store |-> c.store]
        ELSE [ok |-> TRUE, store |-> BulkUpdate(c.store, marks_to_update)]

_commit_marks_syncNoRollback(store, marks_to_create, marks_to_update, fail, time) ==
    LET r == RunStatements(store, marks_to_create, marks_to_update, fail, time)
    IN  IF r.ok /\ fail # "commit" THEN r ELSE [ok |-> FALSE, store |-> r.store]

\* views.py 111: transaction.atomic() commits when the block ends normally
\* and rolls back when a statement, or the commit itself, raises
_commit_marks_sync(store, marks_to_create, marks_to_update, fail, time) ==
    LET r == RunStatements(store, marks_to_create, marks_to_update, fail, time)
    IN  IF r.ok /\ fail # "commit" THEN r ELSE [ok |-> FALSE, store |-> store]

---------------------------------------------------------------------------
(* Requests and responses *)

\* the uploaded file of an import request: the extension of its name,
\* whether the reader can parse its content, and its column names in lower
\* case
Upload(extension, readable, columns) ==
    [extension |-> extension, readable |-> readable, columns |-> columns]

NoUpload == Upload(NULL, FALSE, {})

\* views.py 177
RequiredCols ==
    {"student_number", "subject_name", "subject_code", "score", "comment"}

\* a file that is read and has the required columns
GoodUpload == Upload("csv", TRUE, RequiredCols)

\* an Excel file the reader cannot parse, a file with another extension,
\* and a CSV file without the comment column
BadUploads ==
    { Upload("xlsx", FALSE, RequiredCols),
      Upload("txt", TRUE, RequiredCols),
      Upload("csv", TRUE, RequiredCols \ {"comment"}) }

\* views.py 349-359: TRUE when a DataFrame is returned, FALSE when the
\* reader raises (pandas or openpyxl on content it cannot parse, ValueError
\* for any other extension)
_read_excel_file(upload) ==
    IF upload.extension = "csv" THEN upload.readable
    ELSE IF upload.extension \in {"xls", "xlsx"} THEN upload.readable
    ELSE FALSE

HasRequiredColsScoreOnly(upload) == "score" \in upload.columns

\* views.py 178
HasRequiredCols(upload) == RequiredCols \subseteq upload.columns

\* views.py 170-184: the file-level error of an upload, if any
FileError(upload) ==
    IF ~_read_excel_file(upload) THEN "invalid_format"
    ELSE IF ~HasRequiredCols(upload) THEN "missing_columns"
    ELSE "none"

IdleReq ==
    [pc |-> "idle", op |-> NULL, user |-> NULL, term |-> NULL,
     assignment_id |-> NULL, file |-> <<>>, idx |-> 0,
     marks_to_create |-> <<>>, marks_to_update |-> <<>>, row_errors |-> <<>>,
     items |-> <<>>, created |-> 0, updated |-> 0, errors |-> <<>>,
     before |-> <<>>, replay |-> <<>>, rerun |-> FALSE,
     table |-> NULL, id |-> NULL, was_current |-> {}, upload |-> NoUpload,
     queries |-> <<>>, invalid_rows |-> 0, replay_invalid |-> 0]

\* kind: none, validation_failed, storage_failed, success (import);
\*       bulk_done, server_error (bulk_upsert).
\* user .. before record the request the response answers, commit whether
\* the commit ran ("none", "ok", "failed"), rerun whether the request
\* repeats the import that finished just before it
NoResp ==
    [op |-> NULL, kind |-> "none", status |-> 0,
     created |-> 0, updated |-> 0, skipped |-> 0,
     row_errors |-> <<>>, errors |-> <<>>,
     user |-> NULL, term |-> NULL, assignment_id |-> NULL, file |-> <<>>,
     marks_to_create |-> <<>>, marks_to_update |-> <<>>,
     before |-> <<>>, commit |-> "none", rerun |-> FALSE,
     table |-> NULL, id |-> NULL, was_current |-> {}, seen |-> {},
     torn |-> FALSE, upload |-> NoUpload, items |-> <<>>,
     queries |-> <<>>, invalid_rows |-> 0]

NoImport ==
    [valid |-> FALSE, user |-> NULL, term |-> NULL, assignment_id |-> NULL,
     file |-> <<>>, kind |-> "none", invalid_rows |-> 0]

Row(student_number, subject_code, score, comment) ==
    [student_number |-> student_number, subject_code |-> subject_code,
     score |-> score, comment |-> comment]

\* the rows a file is made of, after the clean-up of views.py 186-197:
\* two rows for the same key with different scores and comments (the second
\* at max_score, with a comment of 501 characters), a score of
\* max_score + 0.01, a negative score, an unknown student, an unknown
\* subject code, a student whose department has no assignment, and a score
\* of 0 in a second subject
RowInputs ==
    { Row("S1", "MATH", 1, <<"a", 1>>),
      Row("S1", "MATH", SubjectTable["MATH"].max_score, <<"b", MaxCommentLen + 1>>),
      Row("S1", "MATH", SubjectTable["MATH"].max_score + 1, EmptyComment),
      Row("S1", "MATH", -1, EmptyComment),
      Row("SX", "MATH", 1, EmptyComment),
      Row("S1", "ZZZ", 1, EmptyComment),
      Row("S2", "MATH", 1, EmptyComment),
      Row("S1", "PHY", 0, EmptyComment) }

\* the rows drawn while requests overlap: the two rows for the same key and
\* the row with a score of max_score + 0.01
ConcurrentRowInputs ==
    { r \in RowInputs : r.student_number = "S1" /\ r.subject_code = "MATH"
                        /\ r.score >= 1 }

\* views.py 157, 230-231: the optional assignment_id of the request
AssignmentFilters == {NULL, "A1"}

Item(student, subject_assignment, student_id, assignment_id, score, comment) ==
    [student |-> student, subject_assignment |-> subject_assignment,
     student_id |-> student_id, assignment_id |-> assignment_id,
     score |-> score, comment |-> comment]

\* the items of a bulk_upsert array: the serializer reads the keys student
\* and subject_assignment (serializers.py 162, 165), the write reads
\* student_id and assignment_id (model_views.py 220-221); NULL is a key the
\* item does not have (the last two items lack one pair of keys each)
ItemInputs ==
    { Item("S1", "A1", "S1", "A1", 1, <<"c", MaxCommentLen + 1>>),
      Item("S1", "A1", "S1", "A1", SubjectTable["MATH"].max_score, EmptyComment),
      Item("S1", "A1", "S1", "A1", -1, EmptyComment),
      Item("S1", "A1", "S1", "A1", SubjectTable["MATH"].max_score + 1, EmptyComment),
      Item(NULL, NULL, "S1", "A1", 1, EmptyComment),
      Item("S1", "A1", NULL, NULL, 1, EmptyComment) }

ItemLists == SeqsUpTo(ItemInputs, MaxItems)

AllIdle == \A c \in Clients : req[c].pc = "idle"

\* a new request is received: the clock advances; without concurrency a
\* request is received only when no other is being served
MayStart(c) ==
    /\ req[c].pc = "idle"
    /\ now < MaxRequests
    /\ concurrent \/ (AllIdle /\ c = 1)

---------------------------------------------------------------------------
(* views.py: ExcelMarkImportView.post *)

ErrorCap == 50      \* views.py 315: row_errors[:50]

\* the queries of an import before its loop: the term (views.py 164), the
\* students (215), the subjects (219) and the assignments of the term (235)
PrefetchQueries == <<"Term", "Student", "Subject", "SubjectAssignment">>

\* an import request is received
StartImport(c, user, term, assignment_id, replay, rerun, upload) ==
    /\ MayStart(c)
    /\ now' = now + 1
    /\ req' = [req EXCEPT ![c] =
                 [IdleReq EXCEPT !.pc = "import_rows", !.op = "import",
                                 !.user = user, !.term = term,
                                 !.assignment_id = assignment_id,
                                 !.before = marks,
                                 !.replay = replay, !.rerun = rerun,
                                 !.upload = upload,
                                 !.queries = PrefetchQueries,
                                 !.replay_invalid =
                                    IF rerun THEN last_import.invalid_rows
                                    ELSE 0]]
    /\ resp' = [resp EXCEPT ![c] = NoResp]
    /\ last_import' = NoImport
    /\ UNCHANGED <<marks, subject_assignments, taught_subjects, academic_years,
                   terms, concurrent, auth_result>>

\* views.py 154-241: a request with a file is accepted and the per-row loop
\* begins.  The file is an input of the request; its rows are drawn as the
\* loop reaches them (ImportRow), which gives the same runs as drawing the
\* whole file here, since nothing else reads it.
ImportStart(c, user, term, assignment_id) ==
    StartImport(c, user, term, assignment_id, <<>>, FALSE, GoodUpload)

\* the same request again: the user of the import that finished last sends
\* the same file for the same term, before any other request is received
ImportAgain(c) ==
    /\ last_import.valid
    /\ StartImport(c, last_import.user, last_import.term,
                   last_import.assignment_id, last_import.file, TRUE,
                   GoodUpload)

\* views.py 243-308: one iteration of the loop, for the next row of the
\* file; the Mark for the row's key is looked up in the table as it is at
\* this moment by a query of its own (283-286)
ImportRow(c, row) ==
    LET q   == req[c]
        pos == Len(q.file) + 1
        out == PlanRow(marks, q.user, q.term, q.assignment_id, row, pos)
    IN  /\ q.pc = "import_rows"
        /\ q.invalid_rows = 0
        /\ IF q.rerun THEN pos <= Len(q.replay) /\ row = q.replay[pos]
                      ELSE pos <= MaxRows
        /\ req' = [req EXCEPT ![c] =
             [q EXCEPT
                !.file = Append(@, row),
                !.queries = IF out.kind = "error" THEN @
                            ELSE Append(@, "Mark"),
                !.row_errors = IF out.kind = "error"
                               THEN Append(@, out.error) ELSE @,
                !.marks_to_update = IF out.kind = "update"
                                    THEN Append(@, out.obj) ELSE @,
                !.marks_to_create = IF out.kind = "create"
                                    THEN Append(@, out.obj) ELSE @]]
        /\ UNCHANGED <<marks, subject_assignments, taught_subjects,
                       academic_years, terms, now, resp, last_import,
                       concurrent, auth_result>>

\* views.py 193-198: the next row of the file has no score, or one that is
\* not a number; to_numeric makes it NaN and dropna leaves the row out of
\* valid_rows, so that the loop never sees it.  In the files drawn here the
\* rows without a score come after the rows with one, so that the index of
\* a row that is kept is its position among the rows that are kept.
ImportDropRow(c) ==
    LET q == req[c]
    IN  /\ q.pc = "import_rows"
        /\ IF q.rerun
           THEN q.file = q.replay /\ q.invalid_rows < q.replay_invalid
           ELSE Len(q.file) + q.invalid_rows < MaxRows
        /\ req' = [req EXCEPT ![c] = [q EXCEPT !.invalid_rows = @ + 1]]
        /\ UNCHANGED <<marks, subject_assignments, taught_subjects,
                       academic_years, terms, now, resp, last_import,
                       concurrent, auth_result>>

\* the whole file has been read
WholeFile(q) ==
    /\ q.pc = "import_rows"
    /\ q.rerun => q.file = q.replay /\ q.invalid_rows = q.replay_invalid

\* the loop has gone through the rows that were kept, of which there is at
\* least one (views.py 204)
EndOfFile(q) ==
    /\ WholeFile(q)
    /\ q.file # <<>>

ImportResp(q, kind, status, commit) ==
    [NoResp EXCEPT !.op = "import", !.kind = kind, !.status = status,
                   !.user = q.user, !.term = q.term,
                   !.assignment_id = q.assignment_id, !.file = q.file,
                   !.marks_to_create = q.marks_to_create,
                   !.marks_to_update = q.marks_to_update,
                   !.before = q.before, !.commit = commit,
                   !.rerun = q.rerun, !.upload = q.upload,
                   !.queries = q.queries, !.invalid_rows = q.invalid_rows]

ImportRecord(q, kind) ==
    [valid |-> TRUE, user |-> q.user, term |-> q.term,
     assignment_id |-> q.assignment_id, file |-> q.file, kind |-> kind,
     invalid_rows |-> q.invalid_rows]

\* views.py 170-184: a request whose file is not read, or lacks a required
\* column, is answered with the file-level error before any row is looked
\* at; a file without such an error goes to the per-row loop
ImportBadFile(c, user, term, assignment_id, upload) ==
    LET q == [IdleReq EXCEPT !.op = "import", !.user = user, !.term = term,
                             !.assignment_id = assignment_id,
                             !.before = marks, !.upload = upload,
                             !.queries = <<"Term">>]
    IN  IF FileError(upload) # "none"
        THEN /\ MayStart(c)
             /\ now' = now + 1
             /\ resp' = [resp EXCEPT ![c] =
                           ImportResp(q, "file_rejected", HTTP_400, "none")]
             /\ last_import' = NoImport
             /\ UNCHANGED <<marks, subject_assignments, taught_subjects,
                            academic_years, terms, req, concurrent,
                            auth_result>>
        ELSE StartImport(c, user, term, assignment_id, <<>>, FALSE, upload)

\* views.py 204-209: no row is left after dropna; the request is answered
\* before the pre-fetch with "No valid data to import"
ImportNoValidData(c) ==
    LET q == req[c]
    IN  /\ WholeFile(q)
        /\ q.file = <<>>
        /\ resp' = [resp EXCEPT ![c] =
             ImportResp([q EXCEPT !.queries = <<"Term">>], "no_valid_data",
                        HTTP_400, "none")]
        /\ req' = [req EXCEPT ![c] = IdleReq]
        /\ last_import' = ImportRecord(q, "no_valid_data")
        /\ UNCHANGED <<marks, subject_assignments, taught_subjects,
                       academic_years, terms, now, concurrent, auth_result>>

\* views.py 311-320: with any row error the request ends before the commit
ImportReject(c) ==
    LET q == req[c]
    IN  /\ EndOfFile(q)
        /\ q.row_errors # <<>>
        /\ resp' = [resp EXCEPT ![c] =
             [ImportResp(q, "validation_failed", HTTP_400, "none") EXCEPT
                !.row_errors = SubSeq(q.row_errors, 1,
                                      Min(ErrorCap, Len(q.row_errors))),
                !.created = Len(q.marks_to_create),
                !.updated = Len(q.marks_to_update)]]
        /\ req' = [req EXCEPT ![c] = IdleReq]
        /\ last_import' = ImportRecord(q, "validation_failed")
        /\ UNCHANGED <<marks, subject_assignments, taught_subjects,
                       academic_years, terms, now, concurrent, auth_result>>

\* views.py 322-345: the commit, and the response for its outcome
ImportCommit(c, fail) ==
    LET q == req[c]
        r == _commit_marks_sync(marks, q.marks_to_create, q.marks_to_update,
                                fail, now)
    IN  /\ EndOfFile(q)
        /\ q.row_errors = <<>>
        /\ marks' = r.store
        /\ resp' = [resp EXCEPT ![c] =
             IF r.ok
             THEN [ImportResp(q, "success", HTTP_201, "ok") EXCEPT
                     !.created = Len(q.marks_to_create),
                     !.updated = Len(q.marks_to_update),
                     !.skipped = Len(q.row_errors)]
             ELSE ImportResp(q, "storage_failed", HTTP_500, "failed")]
        /\ req' = [req EXCEPT ![c] = IdleReq]
        /\ last_import' = ImportRecord(q, IF r.ok THEN "success"
                                          ELSE "storage_failed")
        /\ UNCHANGED <<subject_assignments, taught_subjects, academic_years,
                       terms, now, concurrent, auth_result>>

---------------------------------------------------------------------------
(* serializers.py: MarkCreateSerializer; model_views.py: bulk_upsert *)

\* serializers.py 164-173: the score is compared with max_score of the
\* subject of the item's subject_assignment, from above only; without that
\* key, or with an unknown id, nothing is compared
validate_score(item) ==
    IF item.subject_assignment # NULL
       /\ item.subject_assignment \in DOMAIN subject_assignments
    THEN LET subj == SubjectTable[
                       subject_assignments[item.subject_assignment].subject]
         IN  ~(item.score > subj.max_score)
    ELSE TRUE

\* serializers.py 159-162, model_views.py 215-216: student and
\* subject_assignment are required keys naming existing rows
is_valid(item) ==
    /\ item.student \in DOMAIN StudentTable
    /\ item.subject_assignment \in DOMAIN subject_assignments
    /\ validate_score(item)

\* model_views.py 206-212
UpsertStart(c, user, items) ==
    /\ MayStart(c)
    /\ now' = now + 1
    /\ req' = [req EXCEPT ![c] =
                 [IdleReq EXCEPT !.pc = "upsert", !.op = "bulk_upsert",
                                 !.user = user, !.items = items, !.idx = 1,
                                 !.before = marks]]
    /\ resp' = [resp EXCEPT ![c] = NoResp]
    /\ last_import' = NoImport
    /\ UNCHANGED <<marks, subject_assignments, taught_subjects, academic_years,
                   terms, concurrent, auth_result>>

UpsertResp(q, kind, status) ==
    [NoResp EXCEPT !.op = "bulk_upsert", !.kind = kind, !.status = status,
                   !.user = q.user, !.before = q.before,
                   !.created = q.created, !.updated = q.updated,
                   !.errors = q.errors, !.items = q.items]

\* model_views.py 214 and 237-242: the next item, or the response after the
\* last one; q is the request with the current item accounted for
UpsertAdvance(c, q) ==
    IF q.idx < Len(q.items)
    THEN /\ req' = [req EXCEPT ![c] = [q EXCEPT !.idx = @ + 1, !.pc = "upsert"]]
         /\ UNCHANGED resp
    ELSE /\ req' = [req EXCEPT ![c] = IdleReq]
         /\ resp' = [resp EXCEPT ![c] =
               UpsertResp(q, "bulk_done",
                          IF q.errors = <<>> THEN HTTP_200 ELSE HTTP_400)]

\* model_views.py 215-235 for the current item, up to the lookup of
\* aupdate_or_create.  An invalid item is recorded as "row i+1" and skipped.
\* For a valid item the keys student_id and assignment_id are read
\* (220-221), which raises KeyError for an item without them, and the Mark
\* with (student_id, assignment_id) is fetched: two or more raise
\* MultipleObjectsReturned; nothing catches either exception.  One Mark is
\* updated under its row lock with score, comment and entered_by, and
\* Mark.save (models.py 115-117) recomputes total_mark on the object, which
\* reaches the table when save writes every column (full_save) and not when
\* update_or_create passes update_fields = the defaults; none leaves the
\* insert to the next step.
UpsertItem(c, full_save) ==
    LET q    == req[c]
        item == q.items[q.idx]
        hits == RowsWithKey(marks, item.student_id, item.assignment_id)
    IN  /\ q.pc = "upsert"
        /\ UNCHANGED <<subject_assignments, taught_subjects, academic_years,
                       terms, now, last_import, concurrent, auth_result>>
        /\ IF ~is_valid(item)
           THEN /\ UpsertAdvance(c, [q EXCEPT !.errors = Append(@, [row |-> q.idx])])
                /\ UNCHANGED marks
           ELSE IF item.student_id = NULL \/ item.assignment_id = NULL
                   \/ Cardinality(hits) > 1
           THEN /\ req' = [req EXCEPT ![c] = IdleReq]
                /\ resp' = [resp EXCEPT ![c] =
                              UpsertResp(q, "server_error", HTTP_500)]
                /\ UNCHANGED marks
           ELSE IF Cardinality(hits) = 1
           THEN /\ marks' = [marks EXCEPT ![MinOf(hits)] =
                     [@ EXCEPT !.score = item.score,
                               !.comment = item.comment,
                               !.entered_by = q.user,
                               !.total_mark =
                                   IF full_save
                                   THEN TotalMark(item.score, item.assignment_id)
                                   ELSE @]]
                /\ UpsertAdvance(c, [q EXCEPT !.updated = @ + 1])
           ELSE /\ req' = [req EXCEPT ![c] = [q EXCEPT !.pc = "upsert_create"]]
                /\ UNCHANGED <<marks, resp>>

\* model_views.py 223-233, the insert of aupdate_or_create after its lookup
\* found no row: Mark.save computes total_mark, entered_at is the time of
\* the insert, modified_by and modified_at stay NULL
UpsertCreate(c) ==
    LET q    == req[c]
        item == q.items[q.idx]
        obj  == NewMark(item.student_id, item.assignment_id, item.score,
                        TotalMark(item.score, item.assignment_id),
                        item.comment, q.user, NULL)
    IN  /\ q.pc = "upsert_create"
        /\ marks' = InsertRow(marks, obj, now)
        /\ UpsertAdvance(c, [q EXCEPT !.created = @ + 1])
        /\ UNCHANGED <<subject_assignments, taught_subjects, academic_years,
                       terms, now, last_import, concurrent, auth_result>>

---------------------------------------------------------------------------
(* models.py: AcademicYear, Term; model_views.py: AcademicYearViewSet,     *)
(* TermViewSet; serializers.py: AcademicYearSerializer, TermSerializer.    *)
(* Both view sets admit the principal only (IsPrincipal).                  *)

YearIds == {"Y1", "Y2"}

\* the two models that carry the is_current flag
CalendarTables == {"AcademicYear", "Term"}

RowIds(table) == IF table = "AcademicYear" THEN YearIds ELSE Terms

\* models.py 35-44, 46-59: a stored row, of which the model keeps the
\* is_current flag and the two dates (days numbered from 1; a row starts
\* on day 1 and ends on day 2 unless a request says otherwise), and an id
\* under which nothing is stored
CalendarRow(is_current) ==
    [stored |-> TRUE, is_current |-> is_current, start_date |-> 1,
     end_date |-> 2]
NoRow ==
    [stored |-> FALSE, is_current |-> FALSE, start_date |-> 1, end_date |-> 2]

Table(table) == IF table = "AcademicYear" THEN academic_years ELSE terms

\* filter(is_current=True) on a table
CurrentRows(rows) == {x \in DOMAIN rows : rows[x].stored /\ rows[x].is_current}

\* one of the two tables is written, the other stays
WriteTable(table, rows) ==
    IF table = "AcademicYear"
    THEN academic_years' = rows /\ UNCHANGED terms
    ELSE terms' = rows /\ UNCHANGED academic_years

ClearCurrentNothing(rows) == rows

\* model_views.py 32, 109; serializers.py 57, 86:
\* filter(is_current=True).aupdate(is_current=False), one UPDATE statement
ClearCurrent(rows) ==
    [x \in DOMAIN rows |-> [rows[x] EXCEPT !.is_current = FALSE]]

\* the id the database gives to a new row of a table with room left
NewId(rows) == CHOOSE x \in DOMAIN rows : ~rows[x].stored

\* rest_framework ModelSerializer.create: the row is inserted with the
\* validated data
create(rows, is_current) ==
    [rows EXCEPT ![NewId(rows)] = CalendarRow(is_current)]

\* serializers.py 54-58, AcademicYearSerializer.acreate: with is_current in
\* the data the current rows are cleared, then the row is inserted
acreate(rows, is_current) ==
    create(IF is_current THEN ClearCurrent(rows) ELSE rows, is_current)

\* the value of is_current in the data of an update: "absent" when the
\* request does not carry the field
Patches == {"true", "false", "absent"}

\* rest_framework ModelSerializer.update: each field of the validated data
\* is set on the instance, which is saved; neither serializer overrides it
update(rows, id, patch) ==
    [rows EXCEPT ![id].is_current =
        IF patch = "absent" THEN @ ELSE patch = "true"]

\* a request on one of the two view sets is received, from the principal
CalendarReq(pc, op, table, id) ==
    [IdleReq EXCEPT !.pc = pc, !.op = op, !.user = "p1", !.table = table,
                    !.id = id, !.was_current = CurrentRows(Table(table))]

CalendarResp(q, kind, status) ==
    [NoResp EXCEPT !.op = q.op, !.kind = kind, !.status = status,
                   !.user = q.user, !.table = q.table, !.id = q.id,
                   !.was_current = q.was_current]

\* a request that is answered in the step that receives it
Answer(c, q, kind, status) ==
    /\ MayStart(c)
    /\ now' = now + 1
    /\ resp' = [resp EXCEPT ![c] = CalendarResp(q, kind, status)]
    /\ UNCHANGED req

\* model_views.py 19-30, 93-106: set_current up to the row being loaded;
\* without an id the answer is 400, for an id that is not stored 404
SetCurrentStart(c, table, id) ==
    LET q == CalendarReq("set_current_clear", "set_current", table, id)
    IN  /\ IF id = NULL THEN Answer(c, q, "id_required", HTTP_400)
           ELSE IF ~Table(table)[id].stored
           THEN Answer(c, q, "not_found", HTTP_404)
           ELSE /\ MayStart(c)
                /\ now' = now + 1
                /\ req' = [req EXCEPT ![c] = q]
                /\ resp' = [resp EXCEPT ![c] = NoResp]
        /\ UNCHANGED <<marks, subject_assignments, taught_subjects,
                       last_import, concurrent, auth_result, academic_years,
                       terms>>

\* model_views.py 32, 109: the first statement of set_current clears the
\* flag of every current row; it is committed on its own (no transaction
\* is open)
SetCurrentClear(c) ==
    LET q == req[c]
    IN  /\ q.pc = "set_current_clear"
        /\ WriteTable(q.table, ClearCurrent(Table(q.table)))
        /\ req' = [req EXCEPT ![c] = [q EXCEPT !.pc = "set_current_save"]]
        /\ UNCHANGED <<marks, subject_assignments, taught_subjects, now,
                       resp, last_import, concurrent, auth_result>>

\* model_views.py 34-40, 111-118: the second statement saves the loaded row
\* with is_current = True, and the response follows; when the save raises,
\* nothing catches it and the answer is 500
SetCurrentSave(c, fail) ==
    LET q == req[c]
    IN  /\ q.pc = "set_current_save"
        /\ IF fail
           THEN /\ UNCHANGED <<academic_years, terms>>
                /\ resp' = [resp EXCEPT ![c] =
                              CalendarResp(q, "save_failed", HTTP_500)]
           ELSE /\ WriteTable(q.table,
                     [Table(q.table) EXCEPT ![q.id].is_current = TRUE])
                /\ resp' = [resp EXCEPT ![c] =
                              CalendarResp(q, "current_set", HTTP_200)]
        /\ req' = [req EXCEPT ![c] = IdleReq]
        /\ UNCHANGED <<marks, subject_assignments, taught_subjects, now,
                       last_import, concurrent, auth_result>>

HasRoom(rows) == \E x \in DOMAIN rows : ~rows[x].stored

\* POST on AcademicYearViewSet: the view set has no create of its own; the
\* serializer's acreate is taken to run for it
YearCreate(c, is_current) ==
    LET q == CalendarReq("idle", "create", "AcademicYear",
                         NewId(academic_years))
    IN  /\ HasRoom(academic_years)
        /\ Answer(c, q, "created", HTTP_201)
        /\ academic_years' = acreate(academic_years, is_current)
        /\ UNCHANGED <<marks, subject_assignments, taught_subjects,
                       last_import, concurrent, auth_result, terms>>

\* model_views.py 60-66, TermViewSet.create: serializer.save() is the
\* synchronous save of rest_framework, which calls create; the acreate of
\* TermSerializer (serializers.py 83-87) is not called by it
TermCreate(c, is_current) ==
    LET q == CalendarReq("idle", "create", "Term", NewId(terms))
    IN  /\ HasRoom(terms)
        /\ Answer(c, q, "created", HTTP_201)
        /\ terms' = create(terms, is_current)
        /\ UNCHANGED <<marks, subject_assignments, taught_subjects,
                       last_import, concurrent, auth_result, academic_years>>

\* model_views.py 69-76, TermViewSet.update, and the update of
\* AcademicYearViewSet: PUT and PATCH (partial) of a stored row save the
\* validated data on it
CalendarUpdate(c, table, id, patch) ==
    LET q == CalendarReq("idle", "update", table, id)
    IN  /\ IF ~Table(table)[id].stored
           THEN /\ Answer(c, q, "not_found", HTTP_404)
                /\ UNCHANGED <<academic_years, terms>>
           ELSE /\ Answer(c, q, "updated", HTTP_200)
                /\ WriteTable(table, update(Table(table), id, patch))
        /\ UNCHANGED <<marks, subject_assignments, taught_subjects,
                       last_import, concurrent, auth_result>>

\* the days a request may name, and a date field of the request data: <<>>
\* when the data does not carry the field, <<d>> when it carries day d
Dates == 1..MaxDate
DateFields == {<<>>} \cup {<<d>> : d \in Dates}

\* the data of a create or update request, as far as the dates go: the two
\* date fields, and whether the data carries academic_year and term_number
\* (keyed; the two fields exist on Term only, where they are taken to name
\* a year and a number no other term has)
Data(start_date, end_date, keyed) ==
    [start_date |-> start_date, end_date |-> end_date, keyed |-> keyed]

DataInputs ==
    {Data(s, e, k) : s \in DateFields, e \in DateFields, k \in BOOLEAN}

\* rest_framework field validation: without partial=True every model field
\* without a default must be in the data
RequiredPresent(table, data) ==
    /\ data.start_date # <<>>
    /\ data.end_date # <<>>
    /\ table = "Term" => data.keyed

\* serializers.py 49-52: both dates are read by subscript, so data without
\* one of them raises KeyError
AcademicYearSerializer_validate(data) ==
    IF data.start_date = <<>> \/ data.end_date = <<>> THEN "KeyError"
    ELSE IF data.start_date[1] >= data.end_date[1] THEN "invalid"
    ELSE "ok"

\* serializers.py 71-81: the dates are read with get and compared only
\* when the data carries both
TermSerializer_validate(data) ==
    IF /\ data.start_date # <<>>
       /\ data.end_date # <<>>
       /\ data.start_date[1] >= data.end_date[1]
    THEN "invalid"
    ELSE "ok"

\* model_views.py 79-90: academic_year and term_number are read by
\* subscript from the validated data
_validate_unique_term(data) == IF data.keyed THEN "ok" ELSE "KeyError"

\* is_valid and, for terms, _validate_unique_term (model_views.py 60-76)
Validation(table, partial, data) ==
    IF ~partial /\ ~RequiredPresent(table, data) THEN "invalid"
    ELSE IF table = "AcademicYear"
    THEN AcademicYearSerializer_validate(data)
    ELSE IF TermSerializer_validate(data) # "ok"
    THEN TermSerializer_validate(data)
    ELSE _validate_unique_term(data)

\* serializer.save(): the fields of the validated data are set on the row
SaveDates(row, data) ==
    [row EXCEPT
       !.start_date = IF data.start_date = <<>> THEN @ ELSE data.start_date[1],
       !.end_date = IF data.end_date = <<>> THEN @ ELSE data.end_date[1]]

\* the response to data that did not pass: 400 for a ValidationError, 500
\* for the KeyError nothing catches
Refuse(c, q, outcome) ==
    /\ IF outcome = "invalid" THEN Answer(c, q, "invalid", HTTP_400)
       ELSE Answer(c, q, "server_error", HTTP_500)
    /\ UNCHANGED <<academic_years, terms>>

\* POST on either view set with dates in the data (model_views.py 60-66
\* for terms): the data is validated and the row inserted
DatesCreate(c, table, data) ==
    LET rows    == Table(table)
        q       == CalendarReq("idle", "create", table, NewId(rows))
        outcome == Validation(table, FALSE, data)
    IN  /\ HasRoom(rows)
        /\ IF outcome = "ok"
           THEN /\ Answer(c, q, "created", HTTP_201)
                /\ WriteTable(table,
                      [rows EXCEPT ![NewId(rows)] =
                          SaveDates(CalendarRow(FALSE), data)])
           ELSE Refuse(c, q, outcome)
        /\ UNCHANGED <<marks, subject_assignments, taught_subjects,
                       last_import, concurrent, auth_result>>

\* PUT (partial = FALSE) and PATCH (partial = TRUE) on either view set
\* with dates in the data (model_views.py 69-76 for terms): the row is
\* loaded, the data validated and saved on the row
DatesUpdate(c, table, id, partial, data) ==
    LET rows    == Table(table)
        q       == CalendarReq("idle", "update", table, id)
        outcome == Validation(table, partial, data)
    IN  /\ IF ~rows[id].stored
           THEN /\ Answer(c, q, "not_found", HTTP_404)
                /\ UNCHANGED <<academic_years, terms>>
           ELSE IF outcome = "ok"
           THEN /\ Answer(c, q, "updated", HTTP_200)
                /\ WriteTable(table,
                      [rows EXCEPT ![id] = SaveDates(@, data)])
           ELSE Refuse(c, q, outcome)
        /\ UNCHANGED <<marks, subject_assignments, taught_subjects,
                       last_import, concurrent, auth_result>>

\* a set_current of client d has cleared the rows that were current and
\* has not saved its row yet
Torn(d, table) ==
    /\ req[d].pc = "set_current_save"
    /\ req[d].table = table
    /\ ~Table(table)[req[d].id].is_current
    /\ \E x \in req[d].was_current : ~Table(table)[x].is_current

\* GET on either view set: the rows are read as they are stored now; seen
\* is the set of rows read as current, torn whether the read fell between
\* the two statements of a set_current of another client
ListRows(c, table) ==
    LET q == CalendarReq("idle", "list", table, NULL)
    IN  /\ MayStart(c)
        /\ now' = now + 1
        /\ resp' = [resp EXCEPT ![c] =
              [CalendarResp(q, "listed", HTTP_200) EXCEPT
                 !.seen = CurrentRows(Table(table)),
                 !.torn = \E d \in Clients \ {c} : Torn(d, table)]]
        /\ UNCHANGED <<marks, subject_assignments, taught_subjects, req,
                       last_import, concurrent, auth_result, academic_years,
                       terms>>

---------------------------------------------------------------------------
(* Specifications *)

NoAuth == [called |-> FALSE, user |-> NULL, subject |-> NULL,
           department |-> NULL, result |-> FALSE]

InitCommon ==
    /\ marks = <<>>
    /\ now = 0
    /\ req = [c \in Clients |-> IdleReq]
    /\ resp = [c \in Clients |-> NoResp]
    /\ last_import = NoImport
    /\ auth_result = NoAuth

\* the mark paths run with both years and both terms stored, the first of
\* each current
InitMarks ==
    /\ InitCommon
    /\ academic_years = [y \in YearIds |-> CalendarRow(y = "Y1")]
    /\ terms = [t \in Terms |-> CalendarRow(t = "T1")]

\* requests are served one after the other
Init ==
    /\ InitMarks
    /\ subject_assignments = InitialAssignments
    /\ taught_subjects = InitialTaught
    /\ concurrent = FALSE

Next ==
    \/ \E c \in Clients, user \in ActingUsers, term \in Terms,
          assignment_id \in IF concurrent THEN {NULL} ELSE AssignmentFilters :
          ImportStart(c, user, term, assignment_id)
    \/ \E c \in Clients : ImportAgain(c)
    \/ \E c \in Clients, user \in ActingUsers, term \in Terms,
          upload \in BadUploads : ImportBadFile(c, user, term, NULL, upload)
    \/ \E c \in Clients,
          row \in IF concurrent THEN ConcurrentRowInputs ELSE RowInputs :
          ImportRow(c, row)
    \/ \E c \in Clients : ImportDropRow(c)
    \/ \E c \in Clients : ImportNoValidData(c)
    \/ \E c \in Clients : ImportReject(c)
    \/ \E c \in Clients, fail \in FailPoints : ImportCommit(c, fail)
    \/ \E c \in Clients, user \in ActingUsers, items \in ItemLists :
          UpsertStart(c, user, items)
    \/ \E c \in Clients, full_save \in BOOLEAN : UpsertItem(c, full_save)
    \/ \E c \in Clients : UpsertCreate(c)

Spec == Init /\ [][Next]_vars

\* the steps the server takes on a request it has received: each handler is
\* a coroutine the event loop runs to its response (views.py 154-345,
\* model_views.py 198-242), whatever requests arrive meanwhile
Serve ==
    \E c \in Clients :
        \/ \E row \in RowInputs : ImportRow(c, row)
        \/ ImportDropRow(c)
        \/ ImportNoValidData(c)
        \/ ImportReject(c)
        \/ \E fail \in FailPoints : ImportCommit(c, fail)
        \/ \E full_save \in BOOLEAN : UpsertItem(c, full_save)
        \/ UpsertCreate(c)

SpecFair == Spec /\ WF_vars(Serve)

\* requests of different clients overlap
InitConcurrent ==
    /\ InitMarks
    /\ subject_assignments = InitialAssignments
    /\ taught_subjects = InitialTaught
    /\ concurrent = TRUE

SpecConcurrent == InitConcurrent /\ [][Next]_vars

---------------------------------------------------------------------------
(* The authorization primitive on arbitrary assignment tables *)

Teachers == {u \in Users : Role[u] = "teacher"}

\* the assignments of InitialAssignments with any teacher, or none
AssignmentTables ==
    {[a \in AssignmentIds |-> [InitialAssignments[a] EXCEPT !.teacher = t[a]]] :
        t \in [AssignmentIds -> Teachers \cup {NULL}]}

TaughtTables ==
    {[u \in Users |-> IF u \in Teachers THEN f[u] ELSE {}] :
        f \in [Teachers -> SUBSET Subjects]}

InitAuth ==
    /\ InitMarks
    /\ subject_assignments \in AssignmentTables
    /\ taught_subjects \in TaughtTables
    /\ concurrent = FALSE

\* a caller evaluates user.can_edit_marks(subject, department)
CallCanEditMarks(user, subject, department) ==
    /\ auth_result' = [called |-> TRUE, user |-> user, subject |-> subject,
                       department |-> department,
                       result |-> can_edit_marks(user, subject, department)]
    /\ UNCHANGED <<marks, subject_assignments, taught_subjects, academic_years,
                   terms, now, req, resp, last_import, concurrent>>

NextAuth ==
    \E user \in Users, subject \in Subjects, department \in Departments :
        CallCanEditMarks(user, subject, department)

SpecAuth == InitAuth /\ [][NextAuth]_vars

---------------------------------------------------------------------------
(* The current-year and current-term flag on arbitrary tables *)

CalendarRows == {NoRow, CalendarRow(FALSE), CalendarRow(TRUE)}

\* any content of the two tables: rows stored or not, any number current
InitCalendarTables ==
    /\ InitCommon
    /\ subject_assignments = InitialAssignments
    /\ taught_subjects = InitialTaught
    /\ academic_years \in [YearIds -> CalendarRows]
    /\ terms \in [Terms -> CalendarRows]

InitCalendar == InitCalendarTables /\ concurrent = FALSE

NextCalendar ==
    \/ \E c \in Clients, table \in CalendarTables :
          \E id \in RowIds(table) \cup {NULL} : SetCurrentStart(c, table, id)
    \/ \E c \in Clients : SetCurrentClear(c)
    \/ \E c \in Clients, fail \in BOOLEAN : SetCurrentSave(c, fail)
    \/ \E c \in Clients, is_current \in BOOLEAN : YearCreate(c, is_current)
    \/ \E c \in Clients, is_current \in BOOLEAN : TermCreate(c, is_current)
    \/ \E c \in Clients, table \in CalendarTables, patch \in Patches :
          \E id \in RowIds(table) : CalendarUpdate(c, table, id, patch)
    \/ \E c \in Clients, table \in CalendarTables : ListRows(c, table)

\* requests on the two view sets, served one after the other
SpecCalendar == InitCalendar /\ [][NextCalendar]_vars

AtMostOneCurrent(rows) == Cardinality(CurrentRows(rows)) <= 1

\* tables as the data model wants them: at most one current year and at
\* most one current term
InitCalendarValid ==
    /\ InitCalendar
    /\ AtMostOneCurrent(academic_years)
    /\ AtMostOneCurrent(terms)

\* the same requests, one after the other, on tables that start valid
SpecCalendarValid == InitCalendarValid /\ [][NextCalendar]_vars

\* years and terms with dates in order, none of them current
InitDates ==
    /\ InitCommon
    /\ subject_assignments = InitialAssignments
    /\ taught_subjects = InitialTaught
    /\ academic_years \in [YearIds -> {NoRow, CalendarRow(FALSE)}]
    /\ terms \in [Terms -> {NoRow, CalendarRow(FALSE)}]
    /\ concurrent = FALSE

NextDates ==
    \/ \E c \in Clients, table \in CalendarTables, data \in DataInputs :
          DatesCreate(c, table, data)
    \/ \E c \in Clients, table \in CalendarTables, data \in DataInputs :
          \E id \in RowIds(table), partial \in BOOLEAN :
             DatesUpdate(c, table, id, partial, data)

\* create and update requests that carry dates, one after the other
SpecDates == InitDates /\ [][NextDates]_vars

InitSetCurrent ==
    /\ InitCalendarTables
    /\ AtMostOneCurrent(academic_years)
    /\ AtMostOneCurrent(terms)
    /\ concurrent = TRUE

NextSetCurrent ==
    \/ \E c \in Clients, table \in CalendarTables :
          \E id \in RowIds(table) \cup {NULL} : SetCurrentStart(c, table, id)
    \/ \E c \in Clients : SetCurrentClear(c)
    \/ \E c \in Clients, fail \in BOOLEAN : SetCurrentSave(c, fail)
    \/ \E c \in Clients, table \in CalendarTables : ListRows(c, table)

\* overlapping set_current and list requests, and no other writer, on
\* tables that start valid
SpecSetCurrent == InitSetCurrent /\ [][NextSetCurrent]_vars

---------------------------------------------------------------------------
(* Properties *)

SameKey(m1, m2) ==
    m1.student = m2.student /\ m1.subject_assignment = m2.subject_assignment

\* C1: in every reachable state, under any interleaving of imports and
\* bulk_upsert calls, there is at most one Mark row for each
\* (student, subject_assignment) pair.
C1_AtMostOneMarkPerKey ==
    \A i, j \in 1..Len(marks) : SameKey(marks[i], marks[j]) => i = j

\* a row that is invalid for an import by `user` into `term`: student or
\* subject not found, score out of range, no assignment, or a user who may
\* not edit the row's subject in the student's department
RowIsInvalid(row, user, term, assignment_id) ==
    \/ row.student_number \notin DOMAIN StudentTable
    \/ row.subject_code \notin DOMAIN SubjectTable
    \/ row.score < 0
    \/ row.score > SubjectTable[row.subject_code].max_score
    \/ TermAssignment(term, assignment_id, row.subject_code,
                      StudentTable[row.student_number].department) = NULL
    \/ ~can_edit_marks(user, row.subject_code,
                       StudentTable[row.student_number].department)

\* C2: an import whose batch has at least one invalid row leaves the Mark
\* table as it was before the request.
C2_InvalidBatchWritesNothing ==
    \A c \in Clients :
        (/\ resp[c].op = "import"
         /\ \E i \in 1..Len(resp[c].file) :
               RowIsInvalid(resp[c].file[i], resp[c].user, resp[c].term,
                            resp[c].assignment_id))
        => marks = resp[c].before

\* C3: when the commit of a validated batch fails, at whatever point, the
\* Mark table is as it was before the commit and the response is the
\* storage failure (status 500).
C3_FailedCommitLeavesStore ==
    \A c \in Clients :
        (resp[c].op = "import" /\ resp[c].commit = "failed")
        => /\ marks = resp[c].before
           /\ resp[c].kind = "storage_failed"
           /\ resp[c].status = HTTP_500

\* a commit failed although the batch was made of updates of existing marks
C3_Witness ==
    \E c \in Clients :
        /\ resp[c].op = "import"
        /\ resp[c].commit = "failed"
        /\ resp[c].marks_to_create = <<>>
        /\ resp[c].marks_to_update # <<>>

SameContent(m1, m2) ==
    /\ m1.score = m2.score
    /\ m1.total_mark = m2.total_mark
    /\ m1.comment = m2.comment

\* C4: a second import of the same valid file by the same user plans every
\* row as an update, creates no Mark, and leaves score, total_mark and
\* comment of every Mark as the first import left them.
C4_ReimportIsIdempotent ==
    \A c \in Clients :
        (/\ resp[c].op = "import"
         /\ resp[c].rerun
         /\ resp[c].kind \in {"success", "storage_failed"})
        => /\ resp[c].marks_to_create = <<>>
           /\ Len(marks) = Len(resp[c].before)
           /\ \A i \in 1..Len(marks) : SameContent(marks[i], resp[c].before[i])

\* the key (student, assignment of the target term) a row of a validated
\* batch resolves to
RowKey(row, term, assignment_id) ==
    <<row.student_number,
      TermAssignment(term, assignment_id, row.subject_code,
                     StudentTable[row.student_number].department)>>

\* C5: after an import that committed, the Mark of every key of the batch
\* carries the score and the comment of the last row of the file with that
\* key, whether or not a Mark for the key existed before.
C5_LastRowWins ==
    \A c \in Clients :
        (resp[c].op = "import" /\ resp[c].kind = "success")
        => \A i \in 1..Len(resp[c].file) :
             LET f    == resp[c].file
                 t    == resp[c].term
                 aid  == resp[c].assignment_id
                 key  == RowKey(f[i], t, aid)
                 last == CHOOSE j \in i..Len(f) :
                            /\ RowKey(f[j], t, aid) = key
                            /\ \A k \in (j+1)..Len(f) :
                                  RowKey(f[k], t, aid) # key
                 rows == RowsWithKey(marks, key[1], key[2])
             IN  /\ rows # {}
                 /\ \A m \in rows :
                       /\ marks[m].score = f[last].score
                       /\ marks[m].comment = Slice500(f[last].comment)

\* C6: every Mark has total_mark equal to its score multiplied by the
\* coefficient of the subject of its assignment.
C6_TotalMarkIsDerived ==
    \A i \in 1..Len(marks) :
        marks[i].total_mark =
            marks[i].score
            * SubjectTable[subject_assignments[marks[i].subject_assignment].subject].coefficient

\* C7: the import reports a row whose student and subject are found as out
\* of range, naming max_score as the bound, exactly when its score is
\* negative or above max_score; 0 and max_score pass.
C7_ScoreCheckIsExact ==
    \A c \in Clients :
        req[c].pc = "import_rows"
        => \A i \in 1..Len(req[c].file) :
             LET row == req[c].file[i]
             IN  (row.student_number \in DOMAIN StudentTable
                  /\ row.subject_code \in DOMAIN SubjectTable)
                 => LET max == SubjectTable[row.subject_code].max_score
                        out == \E k \in 1..Len(req[c].row_errors) :
                                  /\ req[c].row_errors[k].row = i + 1
                                  /\ req[c].row_errors[k].kind = "OutOfRange"
                                  /\ req[c].row_errors[k].bound = max
                    IN  out <=> (row.score < 0 \/ row.score > max)

\* an import has let a score of max_score pass and reported max_score + 0.01
C7_Witness ==
    \E c \in Clients :
        /\ req[c].pc = "import_rows"
        /\ Len(req[c].file) = 2
        /\ req[c].file[1].subject_code = "MATH"
        /\ req[c].file[1].score = SubjectTable["MATH"].max_score
        /\ req[c].file[2].subject_code = "MATH"
        /\ req[c].file[2].score = SubjectTable["MATH"].max_score + 1
        /\ Len(req[c].row_errors) = 1
        /\ req[c].row_errors[1].row = 3
        /\ req[c].row_errors[1].kind = "OutOfRange"

\* C8: every Mark has 0 <= score <= max_score of the subject of its
\* assignment, whichever path wrote it.
C8_StoredScoreInBounds ==
    \A i \in 1..Len(marks) :
        /\ 0 <= marks[i].score
        /\ marks[i].score
             <= SubjectTable[subject_assignments[marks[i].subject_assignment].subject].max_score

\* the assignments that bind a teacher to (subject, department), in any term
Bindings(teacher, subject, department) ==
    {a \in AssignmentIds :
        subject_assignments[a] =
            [subject |-> subject, department |-> department,
             term |-> subject_assignments[a].term, teacher |-> teacher]}

\* C9: can_edit_marks is true for a principal; for a teacher it is true
\* exactly when the subject is among the teacher's taught_subjects and some
\* assignment binds subject, department and teacher; for a student or a
\* parent it is false.
C9_CanEditMarks ==
    auth_result.called
    => LET u == auth_result.user
       IN  /\ Role[u] = "principal" => auth_result.result
           /\ Role[u] = "teacher" =>
                (auth_result.result <=>
                    (/\ auth_result.subject \in taught_subjects[u]
                     /\ Bindings(u, auth_result.subject,
                                 auth_result.department) # {}))
           /\ Role[u] \in {"student", "parent"} => ~auth_result.result

\* a teacher bound to the subject and department by an assignment, who does
\* not have the subject among the taught subjects, was refused
C9_Witness ==
    /\ auth_result.called
    /\ Role[auth_result.user] = "teacher"
    /\ ~auth_result.result
    /\ Bindings(auth_result.user, auth_result.subject,
                auth_result.department) # {}

\* C10: a row that the import of a teacher accepts resolves to an
\* assignment of the target term whose teacher is that teacher.
C10_TeacherBoundInTargetTerm ==
    \A c \in Clients :
        (req[c].pc = "import_rows" /\ Role[req[c].user] = "teacher")
        => LET planned == req[c].marks_to_create \o req[c].marks_to_update
           IN  \A k \in 1..Len(planned) :
                 LET a == subject_assignments[planned[k].subject_assignment]
                 IN  a.term = req[c].term /\ a.teacher = req[c].user

\* the rows of a file that pass the checks made before the authorization
\* check: student and subject found, score in range, assignment in the term
ReachesPermissionCheck(row, term, assignment_id) ==
    /\ row.student_number \in DOMAIN StudentTable
    /\ row.subject_code \in DOMAIN SubjectTable
    /\ ScoreInRange(row.score, SubjectTable[row.subject_code].max_score)
    /\ TermAssignment(term, assignment_id, row.subject_code,
                      StudentTable[row.student_number].department) # NULL

HasRowError(q, i, kind) ==
    \E k \in 1..Len(q.row_errors) :
        q.row_errors[k].row = i + 1 /\ q.row_errors[k].kind = kind

\* C11: in an import by a teacher, every row that reaches the authorization
\* check for a subject the teacher may not edit is reported as Forbidden,
\* and every such row for a subject the teacher may edit is reported with no
\* error and counted among the planned creates and updates.
C11_UnauthorizedSubjectRejected ==
    \A c \in Clients :
        (req[c].pc = "import_rows" /\ Role[req[c].user] = "teacher")
        => LET q     == req[c]
               check == {i \in 1..Len(q.file) :
                           ReachesPermissionCheck(q.file[i], q.term,
                                                  q.assignment_id)}
               may   == {i \in check :
                           can_edit_marks(q.user, q.file[i].subject_code,
                               StudentTable[q.file[i].student_number].department)}
           IN  /\ \A i \in check \ may : HasRowError(q, i, "Forbidden")
               /\ \A i \in may : \A k \in 1..Len(q.row_errors) :
                                    q.row_errors[k].row # i + 1
               /\ Len(q.marks_to_create) + Len(q.marks_to_update)
                    = Cardinality(may)

\* the subject and the department a Mark belongs to
MarkSubject(m) == subject_assignments[m.subject_assignment].subject
MarkDepartment(m) == StudentTable[m.student].department

\* C12: every step that inserts a Mark or changes one is taken by a request
\* whose user may edit marks of that Mark's subject and department
\* (can_edit_marks), whichever path writes: import or bulk_upsert.
C12_WritesAreAuthorized ==
    [][\A i \in 1..Len(marks') :
          (i > Len(marks) \/ marks'[i] # marks[i])
          => \E c \in Clients :
                /\ req[c].pc # "idle"
                /\ can_edit_marks(req[c].user, MarkSubject(marks'[i]),
                                  MarkDepartment(marks'[i]))]_vars

\* C13: when a set_current for row X of a table has succeeded, with
\* requests served one after the other and whatever the tables held before,
\* X is the one current row of the table and no row that was current
\* before, other than X, is current.
C13_SetCurrentLeavesOneCurrent ==
    \A c \in Clients :
        (resp[c].op = "set_current" /\ resp[c].kind = "current_set")
        => LET rows == Table(resp[c].table)
           IN  /\ CurrentRows(rows) = {resp[c].id}
               /\ \A x \in resp[c].was_current \ {resp[c].id} :
                     ~rows[x].is_current

\* a set_current succeeded on a table in which another row was current
C13_Witness ==
    \E c \in Clients :
        /\ resp[c].op = "set_current"
        /\ resp[c].kind = "current_set"
        /\ resp[c].status = HTTP_200
        /\ resp[c].was_current \ {resp[c].id} # {}

\* C14: while set_current requests for rows of one table overlap, on tables
\* that start with at most one current row and with no other writer, no
\* state has two current academic years or two current terms.
C14_NeverTwoCurrent ==
    AtMostOneCurrent(academic_years) /\ AtMostOneCurrent(terms)

\* C15: set_current is one atomic step: no list request of another client
\* reads the table between the clearing and the saving, and after a
\* set_current whose save failed, with no other request made, the rows that
\* were current are still current.
C15_SetCurrentIsAtomic ==
    /\ \A c \in Clients : resp[c].op = "list" => ~resp[c].torn
    /\ \A c \in Clients :
          (/\ resp[c].op = "set_current"
           /\ resp[c].kind = "save_failed"
           /\ \A d \in Clients \ {c} : req[d] = IdleReq /\ resp[d] = NoResp)
          => resp[c].was_current \subseteq CurrentRows(Table(resp[c].table))

\* C16: with requests served one after the other on tables that start with
\* at most one current row, whatever create, update, partial update and
\* set_current requests are made, at most one academic year and at most one
\* term is current.
C16_AtMostOneCurrentAfterWrites ==
    /\ AtMostOneCurrent(academic_years)
    /\ AtMostOneCurrent(terms)

\* C17: no step changes entered_at of a Mark that exists, or removes the
\* Mark: neither the commit of an import nor a bulk_upsert.
C17_EnteredAtNeverChanges ==
    [][\A i \in 1..Len(marks) :
          /\ i <= Len(marks')
          /\ marks'[i].entered_at = marks[i].entered_at]_vars

\* an import has committed updates of existing marks, which carry a time of
\* entry, and changed the table
C17_Witness ==
    \E c \in Clients :
        /\ resp[c].op = "import"
        /\ resp[c].kind = "success"
        /\ resp[c].marks_to_update # <<>>
        /\ marks # resp[c].before
        /\ \A i \in 1..Len(marks) : marks[i].entered_at > 0

\* C18: right after an import that committed updates of existing marks,
\* each of these marks has modified_by = the acting user and modified_at =
\* the time of the commit; and a Mark that some import has updated
\* (modified_by is set) has a modified_at.
C18_UpdateStampsModified ==
    /\ \A c \in Clients :
          (/\ resp[c].op = "import"
           /\ resp[c].kind = "success"
           /\ last_import.kind = "success"
           /\ AllIdle)
          => \A k \in 1..Len(resp[c].marks_to_update) :
                LET m == marks[resp[c].marks_to_update[k].pk]
                IN  m.modified_by = resp[c].user /\ m.modified_at = now
    /\ \A i \in 1..Len(marks) :
          marks[i].modified_by # NULL => marks[i].modified_at > 0

\* the keys the batch of a request has planned a write for
PlannedKeys(q) ==
    {<<o.student, o.subject_assignment>> :
        o \in {q.marks_to_create[k] : k \in 1..Len(q.marks_to_create)}
              \cup {q.marks_to_update[k] : k \in 1..Len(q.marks_to_update)}}

StoredKeys(store) ==
    {<<store[i].student, store[i].subject_assignment>> : i \in 1..Len(store)}

\* C19: when the commit of an import succeeds, every Mark of a key of the
\* batch that had no row when the import was received has entered_by = the
\* acting user and no modified_by.
C19_NewMarkHasEnteredByOnly ==
    [][\A c \in Clients :
          (/\ req[c].pc = "import_rows"
           /\ resp'[c].op = "import"
           /\ resp'[c].kind = "success")
          => \A i \in 1..Len(marks') :
                LET key == <<marks'[i].student, marks'[i].subject_assignment>>
                IN  (key \in PlannedKeys(req[c])
                     /\ key \notin StoredKeys(req[c].before))
                    => /\ marks'[i].entered_by = req[c].user
                       /\ marks'[i].modified_by = NULL]_vars

\* C20: when the batch of an import is ready to commit and a planned create
\* has a key that another writer has meanwhile given a row, the commit,
\* with no storage fault, succeeds and leaves exactly one Mark for the key,
\* carrying score, total_mark, comment, entered_by and modified_by of the
\* planned create.
C20_RacedCreateOverwrites ==
    \A c \in Clients :
        (EndOfFile(req[c]) /\ req[c].row_errors = <<>>)
        => LET q == req[c]
               r == _commit_marks_sync(marks, q.marks_to_create,
                                       q.marks_to_update, "none", now)
           IN  \A k \in 1..Len(q.marks_to_create) :
                 LET o == q.marks_to_create[k]
                 IN  RowsWithKey(marks, o.student, o.subject_assignment) # {}
                     => /\ r.ok
                        /\ \E i \in 1..Len(r.store) :
                              /\ RowsWithKey(r.store, o.student,
                                             o.subject_assignment) = {i}
                              /\ SameContent(r.store[i], o)
                              /\ r.store[i].entered_by = o.entered_by
                              /\ r.store[i].modified_by = o.modified_by

\* an upload the import must refuse: not readable, of an unsupported
\* extension, or without one of the required columns
Defective(upload) ==
    \/ ~upload.readable
    \/ upload.extension \notin {"csv", "xls", "xlsx"}
    \/ \E col \in RequiredCols : col \notin upload.columns

\* C21: an import of a defective file is answered with the file-level
\* error (status 400) with no row examined and no row error, and leaves the
\* Mark table as it was; no import of such a file reaches the per-row loop.
C21_FileErrorBeforeRows ==
    \A c \in Clients :
        /\ (req[c].op = "import" /\ req[c].pc # "idle")
           => ~Defective(req[c].upload)
        /\ (resp[c].op = "import" /\ Defective(resp[c].upload))
           => /\ resp[c].kind = "file_rejected"
              /\ resp[c].status = HTTP_400
              /\ resp[c].file = <<>>
              /\ resp[c].row_errors = <<>>
              /\ resp[c].commit = "none"
              /\ marks = resp[c].before

\* a file without the comment column was refused while the table held a Mark
C21_Witness ==
    \E c \in Clients :
        /\ resp[c].kind = "file_rejected"
        /\ "comment" \notin resp[c].upload.columns
        /\ marks # <<>>

\* the first check a row fails for an import by `user` into `term`, in the
\* order student found, subject found, score in range, assignment exists,
\* authorized; "none" for a row that passes all five
FirstFailure(row, user, term, assignment_id) ==
    IF row.student_number \notin DOMAIN StudentTable THEN "StudentNotFound"
    ELSE IF row.subject_code \notin DOMAIN SubjectTable THEN "SubjectNotFound"
    ELSE IF row.score < 0 \/ row.score > SubjectTable[row.subject_code].max_score
    THEN "OutOfRange"
    ELSE IF TermAssignment(term, assignment_id, row.subject_code,
                           StudentTable[row.student_number].department) = NULL
    THEN "NoAssignment"
    ELSE IF ~can_edit_marks(user, row.subject_code,
                            StudentTable[row.student_number].department)
    THEN "Forbidden"
    ELSE "none"

\* C22: while an import validates its rows, every row examined so far that
\* fails a check has exactly one error entry, for the first check it fails,
\* naming the row by its line in the sheet (the header being line 1), and
\* there is no other entry; a failing row does not end the examination.
C22_OneErrorPerRejectedRow ==
    \A c \in Clients :
        req[c].pc = "import_rows"
        => LET q   == req[c]
               bad == {i \in 1..Len(q.file) :
                         FirstFailure(q.file[i], q.user, q.term,
                                      q.assignment_id) # "none"}
           IN  /\ Len(q.row_errors) = Cardinality(bad)
               /\ \A i \in bad :
                     Cardinality({k \in 1..Len(q.row_errors) :
                        /\ q.row_errors[k].row = i + 1
                        /\ q.row_errors[k].kind =
                             FirstFailure(q.file[i], q.user, q.term,
                                          q.assignment_id)}) = 1

\* C23: in the response of a bulk_upsert, every item that fails validation
\* is recorded as "row N" with N its 1-based position and nothing else is,
\* the status is 200 exactly when no item errored, and created + updated +
\* the number of errored items is the number of items submitted.
C23_UpsertCountsEveryItem ==
    \A c \in Clients :
        resp[c].op = "bulk_upsert"
        => LET r       == resp[c]
               errored == {i \in 1..Len(r.items) : ~is_valid(r.items[i])}
           IN  /\ {r.errors[k].row : k \in 1..Len(r.errors)} = errored
               /\ Len(r.errors) = Cardinality(errored)
               /\ (r.status = HTTP_200) <=> (errored = {})
               /\ r.created + r.updated + Cardinality(errored) = Len(r.items)

\* the assignments a row of an import into `term` may be stored under: of
\* that term, of the row's subject, of the student's department, and the one
\* named by the request when it names one
Eligible(row, term, assignment_id) ==
    {a \in DOMAIN subject_assignments :
        /\ subject_assignments[a].term = term
        /\ subject_assignments[a].subject = row.subject_code
        /\ subject_assignments[a].department =
              StudentTable[row.student_number].department
        /\ assignment_id # NULL => a = assignment_id}

\* C24: in an import into term T, a row with a known student, a known
\* subject and a score in range is reported with the no-assignment error
\* exactly when no assignment of T for its subject and the student's
\* department (and the requested assignment_id) exists, and every planned
\* write is stored under an assignment that is eligible for a row of the
\* file with its student; the Marks a committed import changed belong to
\* assignments of T.
C24_AssignmentOfTargetTerm ==
    \A c \in Clients :
        /\ req[c].pc = "import_rows"
           => LET q       == req[c]
                  planned == q.marks_to_create \o q.marks_to_update
              IN  /\ \A i \in 1..Len(q.file) :
                        LET row == q.file[i]
                        IN  (/\ row.student_number \in DOMAIN StudentTable
                             /\ row.subject_code \in DOMAIN SubjectTable
                             /\ ScoreInRange(row.score,
                                   SubjectTable[row.subject_code].max_score))
                            => (HasRowError(q, i, "NoAssignment")
                                <=> Eligible(row, q.term, q.assignment_id) = {})
                  /\ \A k \in 1..Len(planned) :
                        \E i \in 1..Len(q.file) :
                           /\ q.file[i].student_number = planned[k].student
                           /\ planned[k].subject_assignment
                                 \in Eligible(q.file[i], q.term,
                                              q.assignment_id)
        /\ (resp[c].op = "import" /\ resp[c].kind = "success"
            /\ last_import.kind = "success")
           => \A i \in 1..Len(marks) :
                 (i > Len(resp[c].before) \/ marks[i] # resp[c].before[i])
                 => subject_assignments[marks[i].subject_assignment].term
                       = resp[c].term

\* an import into T2 has refused a row of PHY, which is assigned in T1
\* only, and planned a row of MATH under the assignment of T2
C24_Witness ==
    \E c \in Clients :
        /\ req[c].pc = "import_rows"
        /\ req[c].term = "T2"
        /\ Len(req[c].file) = 2
        /\ req[c].file[1].subject_code = "PHY"
        /\ HasRowError(req[c], 1, "NoAssignment")
        /\ Len(req[c].marks_to_create) = 1
        /\ req[c].marks_to_create[1].subject_assignment = "A2"

\* the four outcomes; the answer to a file that keeps no row is a rejection
\* of the file
Outcomes ==
    {"file_rejected", "no_valid_data", "validation_failed", "storage_failed",
     "success"}

\* every planned create and update of the answered import is in the table
Applied(r, store) ==
    /\ \A k \in 1..Len(r.marks_to_create) :
          \E i \in 1..Len(store) :
             /\ SameKey(store[i], r.marks_to_create[k])
             /\ store[i].score = r.marks_to_create[k].score
             /\ store[i].comment = r.marks_to_create[k].comment
    /\ \A k \in 1..Len(r.marks_to_update) :
          LET o == r.marks_to_update[k]
          IN  /\ store[o.pk].score = o.score
              /\ store[o.pk].comment = o.comment

\* C25: an import that was submitted is eventually answered; the answer is
\* one of file-level rejection, validation failure, storage failure and
\* success; the step that answers with anything but success leaves the Mark
\* table as it was, and the step that answers with success leaves every
\* planned create and update in the table.
C25_ImportEndsInOneOutcome ==
    /\ \A c \in Clients :
          (req[c].pc = "import_rows")
          ~> (req[c].pc = "idle" /\ resp[c].op = "import"
              /\ resp[c].kind \in Outcomes)
    /\ [][\A c \in Clients :
            (resp'[c] # resp[c] /\ resp'[c].op = "import")
            => /\ resp'[c].kind \in Outcomes
               /\ resp'[c].kind # "success" => marks' = marks
               /\ resp'[c].kind = "success" => Applied(resp'[c], marks')]_vars

QueriesOf(table, queries) ==
    Cardinality({k \in 1..Len(queries) : queries[k] = table})

\* C26: an import that went through its rows has looked up the students,
\* the subjects and the assignments of the term once each and the Mark
\* table at most once, however many rows the file has.
C26_LookupsIndependentOfRows ==
    \A c \in Clients :
        (resp[c].op = "import"
         /\ resp[c].kind \notin {"file_rejected", "no_valid_data"})
        => /\ \A t \in {"Student", "Subject", "SubjectAssignment"} :
                 QueriesOf(t, resp[c].queries) = 1
           /\ QueriesOf("Mark", resp[c].queries) <= 1

\* C27: the comment of every stored Mark has at most 500 characters, and
\* the comment an import plans for a row is the first 500 characters of the
\* row's comment, the empty string when the row has none.
C27_CommentAtMost500 ==
    /\ \A i \in 1..Len(marks) : marks[i].comment[2] <= MaxCommentLen
    /\ \A c \in Clients :
          req[c].pc = "import_rows"
          => LET q       == req[c]
                 planned == q.marks_to_create \o q.marks_to_update
             IN  \A k \in 1..Len(planned) :
                    \E i \in 1..Len(q.file) :
                       /\ q.file[i].student_number = planned[k].student
                       /\ planned[k].comment =
                             <<q.file[i].comment[1],
                               IF q.file[i].comment[2] > MaxCommentLen
                               THEN MaxCommentLen ELSE q.file[i].comment[2]>>

DatesInOrder(rows) ==
    \A x \in DOMAIN rows :
        rows[x].stored => rows[x].start_date < rows[x].end_date

\* C28: every stored year and term has start_date before end_date, and a
\* create or update that is answered as invalid leaves both tables as they
\* were.
C28_StartBeforeEnd ==
    /\ [](DatesInOrder(academic_years) /\ DatesInOrder(terms))
    /\ [][\A c \in Clients :
            (resp'[c] # resp[c] /\ resp'[c].op \in {"create", "update"}
             /\ resp'[c].kind = "invalid")
            => UNCHANGED <<academic_years, terms>>]_vars

\* C29: in the response of an import that committed, created is the number
\* of Marks that were not stored before the import and are stored after
\* it, updated is the number of Marks stored before that the import wrote,
\* also when several rows of the file have the same key, and skipped is 0.
C29_CountsAreRows ==
    \A c \in Clients :
        (resp[c].op = "import" /\ resp[c].kind = "success"
         /\ last_import.kind = "success")
        => /\ resp[c].created = Len(marks) - Len(resp[c].before)
           /\ resp[c].updated =
                 Cardinality({resp[c].marks_to_update[k].pk :
                                 k \in 1..Len(resp[c].marks_to_update)})
           /\ resp[c].skipped = 0

\* C30: the rows without a score are left out before validation and give
\* no row error; a file that mixes them with rows that all pass validation
\* is committed and answered with success, each of its valid rows with a
\* Mark in the table afterwards; a file of which every row lacks a score
\* is answered with a failure and nothing is written.
C30_RowsWithoutScoreAreDropped ==
    \A c \in Clients :
        /\ req[c].pc = "import_rows"
           => Len(req[c].row_errors) <= Len(req[c].file)
        /\ (EndOfFile(req[c]) /\ req[c].invalid_rows > 0
            /\ req[c].row_errors = <<>>)
           => LET q == req[c]
                  r == _commit_marks_sync(marks, q.marks_to_create,
                                          q.marks_to_update, "none", now)
              IN  /\ r.ok
                  /\ \A i \in 1..Len(q.file) :
                        LET key == RowKey(q.file[i], q.term, q.assignment_id)
                        IN  RowsWithKey(r.store, key[1], key[2]) # {}
        /\ (resp[c].op = "import" /\ resp[c].file = <<>>
            /\ resp[c].invalid_rows > 0)
           => /\ resp[c].kind = "no_valid_data"
              /\ resp[c].status = HTTP_400
              /\ resp[c].commit = "none"
              /\ last_import.kind = "no_valid_data"
                 => marks = resp[c].before

====
